---- MODULE Spec2Model ----
(***************************************************************************)
(* The admin blueprint of the journalist interface                         *)
(* (securedrop/journalist_app/admin.py).  The state is the journalists     *)
(* table, the logo file and the last request served with its response.     *)
(* Every view function is an operator that maps the table and the request  *)
(* to the new table and the response; an action serves one request.        *)
(***************************************************************************)
EXTENDS Integers, Sequences, FiniteSets, Bags, TLC

VARIABLES journalists, logo, last, active, inflight

vars == <<journalists, logo, last, active, inflight>>

(* ------------------------------ bounds -------------------------------- *)

\* primary keys run over 1..MaxId
MaxId == 2
\* longest otp_secret a form submits
MaxSecretLen == 2
\* requests that have passed their checks and not yet committed
MaxInFlight == 2

(* ------------------------------ values -------------------------------- *)

Ids == 1..MaxId
\* session['uid'] of a request without a logged-in journalist
NoSession == 0
Requesters == Ids \cup {NoSession}
\* user_id of a URL: any int, 0 is never a primary key
UserIds == 0..MaxId

Usernames == {"alice", "bob", "carol"}
\* the usernames the forms of the sequential specification submit
FormUsernames == {"alice", "bob"}
ShortUsername == "x"
NoUsername == ""
Passwords == {"pw1"}
BadPassword == "short"

HexDigits == {"0", "1", "2", "3", "4", "5", "6", "7", "8", "9",
              "a", "b", "c", "d", "e", "f", "A", "B", "C", "D", "E", "F"}
SecretAlphabet == {"a", "g"}
SecretInputs == UNION {[1..n -> SecretAlphabet] : n \in 0..MaxSecretLen}
TotpSecrets == {<<"t", "0">>}
HotpFormSecret == <<"a", "a">>
NoSecret == <<>>

BadToken == [is_totp |-> FALSE, secret |-> NoSecret]
TokenFor(user) == [is_totp |-> user.is_totp, secret |-> user.otp_secret]
Tokens == {BadToken} \cup {[is_totp |-> TRUE, secret |-> s] : s \in TotpSecrets}
             \cup {[is_totp |-> FALSE, secret |-> HotpFormSecret]}

FlashNone == ""
FlashLogoOk == "Image updated."
FlashLogoError == "logo-error"
FlashPasswordError == "There was an error with the autogenerated password. User not created. Please try again."
FlashInvalidUsername == "Invalid username"
FlashInUse == "That username is already in use"
FlashSaveError == "An error occurred saving this user to the database. Please inform your administrator."
FlashTokenOk == "Token in two-factor authentication accepted"
FlashTokenBad == "Could not verify token in two-factor authentication."
FlashNonHex == "Invalid secret format: please only submit letters A-F and numbers 0-9."
FlashOddLength == "Invalid secret format: odd-length secret. Did you mistype the secret?"
FlashUnexpected == "An unexpected error occurred! Please inform your administrator."
FlashTaken == "Username already taken."
FlashUpdated == "Account updated."
FlashPasswordSaved == "Password updated."
FlashDeleted == "Deleted user"
FlashOssec == "Test alert sent. Check your email."
FlashAdminOnly == "Only administrators can access this page."

(* --------------------------- the model layer -------------------------- *)

Exists(d, uid) == uid \in DOMAIN d

UsernameTaken(d, name) == \E i \in DOMAIN d : d[i].username = name

Max(S) == CHOOSE m \in S : \A x \in S : x <= m

NextId(d) == IF DOMAIN d = {} THEN 1 ELSE Max(DOMAIN d) + 1

Put(d, uid, row) == [i \in DOMAIN d \cup {uid} |-> IF i = uid THEN row ELSE d[i]]

Remove(d, uid) == [i \in DOMAIN d \ {uid} |-> d[i]]

check_username_acceptable(name) == name \in Usernames

check_password_acceptable(password) == password \in Passwords

IsHexString(s) == \A k \in 1..Len(s) : s[k] \in HexDigits

unhexlify_error(s) ==
    IF Len(s) % 2 = 1 THEN "Odd-length string"
    ELSE IF ~IsHexString(s) THEN "Non-hexadecimal digit found"
    ELSE "ok"

verify_token(user, token) == token = TokenFor(user)

(* ------------------------------ responses ----------------------------- *)

Response(status, view, flash, loc) ==
    [status |-> status, view |-> view, flash |-> flash, loc |-> loc]

Out(d, lg, resp) == [db |-> d, logo |-> lg, resp |-> resp]

(* ------------------------- model layer, writes ------------------------ *)

\* Journalist(username=..., password=..., is_admin=..., otp_secret=...):
\* raises on an unacceptable username or password; otp_secret None leaves
\* the freshly generated TOTP secret gen, a given one switches to HOTP.
Journalist(username, password, is_admin, otp_secret, gen) ==
    IF ~check_username_acceptable(username)
    THEN [raised |-> "InvalidUsernameException"]
    ELSE IF ~check_password_acceptable(password)
    THEN [raised |-> "PasswordError"]
    ELSE [raised |-> "none",
          row |-> [username |-> username, password |-> password,
                   is_admin |-> is_admin,
                   is_totp |-> (otp_secret = NoSecret),
                   otp_secret |-> IF otp_secret = NoSecret THEN gen
                                  ELSE otp_secret]]

\* user.set_hotp_secret(otp_secret): unhexlify raises before any attribute
\* is assigned.
set_hotp_secret(user, otp_secret) ==
    IF unhexlify_error(otp_secret) # "ok"
    THEN [raised |-> unhexlify_error(otp_secret), row |-> user]
    ELSE [raised |-> "none",
          row |-> [user EXCEPT !.is_totp = FALSE, !.otp_secret = otp_secret]]

\* user.is_totp = True; user.regenerate_totp_shared_secret()
regenerate_totp_shared_secret(user, gen) ==
    [user EXCEPT !.is_totp = TRUE, !.otp_secret = gen]

\* the UNIQUE constraint on journalists.username, checked by the storage
\* layer when a session commits row uid with username name
UniqueConstraintFailed(d, uid, name) ==
    \E i \in DOMAIN d : i # uid /\ d[i].username = name

\* commit_account_changes(user): commits the pending attribute changes of
\* one row; a failed commit is rolled back and reported.
commit_account_changes(d, ch) ==
    IF ~ch.dirty THEN [db |-> d, flash |-> FlashNone]
    ELSE IF ~Exists(d, ch.uid) THEN [db |-> d, flash |-> FlashUnexpected]
    ELSE IF ch.username # NoUsername
            /\ UniqueConstraintFailed(d, ch.uid, ch.username)
    THEN [db |-> d, flash |-> FlashInUse]
    ELSE [db |-> Put(d, ch.uid,
                     [d[ch.uid] EXCEPT
                        !.username = IF ch.username # NoUsername
                                     THEN ch.username ELSE @,
                        !.is_admin = IF ch.set_admin THEN ch.is_admin ELSE @]),
          flash |-> FlashUpdated]

\* set_diceware_password(user, password)
set_diceware_password(d, uid, password) ==
    IF ~check_password_acceptable(password)
    THEN [db |-> d, flash |-> FlashPasswordError]
    ELSE [db |-> Put(d, uid, [d[uid] EXCEPT !.password = password]),
          flash |-> FlashPasswordSaved]

\* @admin_required: the session's journalist exists and is an admin
admin_required(d, who) == Exists(d, who) /\ d[who].is_admin

Denied == Response(302, "main.index", FlashAdminOnly, 0)

(* --------------------------- view functions --------------------------- *)

\* delete_user registered without its @admin_required
RequiresAdmin_delete_open(op) ==
    op \in {"index", "manage_config", "add_user", "new_user_two_factor",
            "reset_two_factor_totp", "reset_two_factor_hotp", "edit_user",
            "set_password", "new_password", "ossec_test"}

\* the view functions of the blueprint decorated with @admin_required
RequiresAdmin(op) ==
    op \in {"index", "manage_config", "add_user", "new_user_two_factor",
            "reset_two_factor_totp", "reset_two_factor_hotp", "edit_user",
            "set_password", "delete_user", "new_password", "ossec_test"}

index(d, lg) == Out(d, lg, Response(200, "admin.html", FlashNone, 0))

manage_config(d, lg, form_ok, f) ==
    IF form_ok
    THEN Out(d, f, Response(302, "admin.manage_config", FlashLogoOk, 0))
    ELSE Out(d, lg, Response(200, "config.html", FlashLogoError, 0))

add_user_render(d, lg, flash) ==
    Out(d, lg, Response(200, "admin_add_user.html", flash, 0))

\* add_user up to db.session.add(new_user): the form and the constructor
add_user_new(form_ok, username, password, is_admin, is_hotp, gen) ==
    IF ~form_ok THEN [raised |-> "form", flash |-> FlashNone]
    ELSE LET otp_secret == IF is_hotp THEN HotpFormSecret ELSE NoSecret
             new_user == Journalist(username, password, is_admin,
                                    otp_secret, gen)
         IN IF new_user.raised = "PasswordError"
            THEN [raised |-> "PasswordError", flash |-> FlashPasswordError]
            ELSE IF new_user.raised = "InvalidUsernameException"
            THEN [raised |-> "InvalidUsernameException",
                  flash |-> FlashInvalidUsername]
            ELSE [raised |-> "none", flash |-> FlashNone,
                  row |-> new_user.row]

\* add_user that redirects with the id of the newest row before the commit
add_user_commit_stale_id(d, lg, new_user) ==
    IF UniqueConstraintFailed(d, NextId(d), new_user.username)
    THEN add_user_render(d, lg, FlashInUse)
    ELSE Out(Put(d, NextId(d), new_user), lg,
             Response(302, "admin.new_user_two_factor", FlashNone,
                      NextId(d) - 1))

\* add_user that leaves form_valid True after the IntegrityError
add_user_commit_still_valid(d, lg, new_user) ==
    IF UniqueConstraintFailed(d, NextId(d), new_user.username)
    THEN Out(d, lg, Response(302, "admin.new_user_two_factor", FlashInUse, 0))
    ELSE Out(Put(d, NextId(d), new_user), lg,
             Response(302, "admin.new_user_two_factor", FlashNone, NextId(d)))

\* add_user whose test of the IntegrityError's text never matches
add_user_commit_no_match(d, lg, new_user) ==
    IF UniqueConstraintFailed(d, NextId(d), new_user.username)
    THEN add_user_render(d, lg, FlashSaveError)
    ELSE Out(Put(d, NextId(d), new_user), lg,
             Response(302, "admin.new_user_two_factor", FlashNone, NextId(d)))

\* add_user from db.session.commit() on
add_user_commit(d, lg, new_user) ==
    IF UniqueConstraintFailed(d, NextId(d), new_user.username)
    THEN add_user_render(d, lg, FlashInUse)
    ELSE Out(Put(d, NextId(d), new_user), lg,
             Response(302, "admin.new_user_two_factor", FlashNone, NextId(d)))

add_user(d, lg, form_ok, username, password, is_admin, is_hotp, gen) ==
    LET c == add_user_new(form_ok, username, password, is_admin, is_hotp, gen)
    IN IF c.raised # "none" THEN add_user_render(d, lg, c.flash)
       ELSE add_user_commit(d, lg, c.row)

\* new_user_two_factor that ignores the result of verify_token
new_user_two_factor_any_token(d, lg, uid, method, token) ==
    IF method = "POST"
    THEN IF ~Exists(d, uid)
         THEN Out(d, lg, Response(500, "AttributeError", FlashNone, 0))
         ELSE Out(d, lg, Response(302, "admin.index", FlashTokenOk, 0))
    ELSE Out(d, lg, Response(200, "admin_new_user_two_factor.html",
                             FlashNone, uid))

new_user_two_factor(d, lg, uid, method, token) ==
    IF method = "POST"
    THEN IF ~Exists(d, uid)
         THEN Out(d, lg, Response(500, "AttributeError", FlashNone, 0))
         ELSE IF verify_token(d[uid], token)
         THEN Out(d, lg, Response(302, "admin.index", FlashTokenOk, 0))
         ELSE Out(d, lg, Response(200, "admin_new_user_two_factor.html",
                                  FlashTokenBad, uid))
    ELSE Out(d, lg, Response(200, "admin_new_user_two_factor.html",
                             FlashNone, uid))

reset_two_factor_totp(d, lg, uid, gen) ==
    IF ~Exists(d, uid)
    THEN Out(d, lg, Response(500, "AttributeError", FlashNone, 0))
    ELSE Out(Put(d, uid, regenerate_totp_shared_secret(d[uid], gen)), lg,
             Response(302, "admin.new_user_two_factor", FlashNone, uid))

\* reset_two_factor_hotp that swallows the TypeError and goes on
reset_two_factor_hotp_swallow(d, lg, uid, otp_secret) ==
    IF otp_secret # NoSecret
    THEN IF ~Exists(d, uid)
         THEN Out(d, lg, Response(500, "AttributeError", FlashNone, 0))
         ELSE Out(Put(d, uid, set_hotp_secret(d[uid], otp_secret).row), lg,
                  Response(302, "admin.new_user_two_factor", FlashNone, uid))
    ELSE Out(d, lg, Response(200, "admin_edit_hotp_secret.html",
                             FlashNone, uid))

reset_two_factor_hotp(d, lg, uid, otp_secret) ==
    IF otp_secret # NoSecret
    THEN IF ~Exists(d, uid)
         THEN Out(d, lg, Response(500, "AttributeError", FlashNone, 0))
         ELSE LET r == set_hotp_secret(d[uid], otp_secret)
              IN IF r.raised = "Non-hexadecimal digit found"
                 THEN Out(d, lg, Response(200, "admin_edit_hotp_secret.html",
                                          FlashNonHex, uid))
                 ELSE IF r.raised = "Odd-length string"
                 THEN Out(d, lg, Response(200, "admin_edit_hotp_secret.html",
                                          FlashOddLength, uid))
                 ELSE IF r.raised # "none"
                 THEN Out(d, lg, Response(200, "admin_edit_hotp_secret.html",
                                          FlashUnexpected, uid))
                 ELSE Out(Put(d, uid, r.row), lg,
                          Response(302, "admin.new_user_two_factor",
                                   FlashNone, uid))
    ELSE Out(d, lg, Response(200, "admin_edit_hotp_secret.html",
                             FlashNone, uid))

edit_user_render(d, lg, flash, user_id) ==
    Out(d, lg, Response(200, "edit_account.html", flash, user_id))

\* edit_user that flashes for a taken username and does not return
edit_user_check_no_return(d, lg, user_id, method, username, is_admin) ==
    IF method # "POST"
    THEN [done |-> TRUE, out |-> edit_user_render(d, lg, FlashNone, user_id)]
    ELSE IF username # NoUsername /\ ~check_username_acceptable(username)
    THEN [done |-> TRUE,
          out |-> Out(d, lg, Response(302, "admin.edit_user",
                                      FlashInvalidUsername, user_id))]
    ELSE IF ~Exists(d, user_id)
    THEN [done |-> TRUE,
          out |-> Out(d, lg, Response(500, "AttributeError", FlashNone, 0))]
    ELSE LET rename == username # NoUsername
                       /\ username # d[user_id].username
                       /\ ~UsernameTaken(d, username)
             set_admin == is_admin # d[user_id].is_admin
         IN [done |-> FALSE,
             changes |-> [uid |-> user_id,
                          username |-> IF rename THEN username
                                       ELSE NoUsername,
                          set_admin |-> set_admin,
                          is_admin |-> is_admin,
                          dirty |-> rename \/ set_admin]]

\* edit_user up to user.is_admin = ...: the checks and the pending changes
edit_user_check(d, lg, user_id, method, username, is_admin) ==
    IF method # "POST"
    THEN [done |-> TRUE, out |-> edit_user_render(d, lg, FlashNone, user_id)]
    ELSE IF username # NoUsername /\ ~check_username_acceptable(username)
    THEN [done |-> TRUE,
          out |-> Out(d, lg, Response(302, "admin.edit_user",
                                      FlashInvalidUsername, user_id))]
    ELSE IF ~Exists(d, user_id)
    THEN [done |-> TRUE,
          out |-> Out(d, lg, Response(500, "AttributeError", FlashNone, 0))]
    ELSE IF username # NoUsername /\ username # d[user_id].username
            /\ UsernameTaken(d, username)
    THEN [done |-> TRUE,
          out |-> Out(d, lg, Response(302, "admin.edit_user",
                                      FlashTaken, user_id))]
    ELSE LET rename == username # NoUsername
                       /\ username # d[user_id].username
             set_admin == is_admin # d[user_id].is_admin
         IN [done |-> FALSE,
             changes |-> [uid |-> user_id,
                          username |-> IF rename THEN username
                                       ELSE NoUsername,
                          set_admin |-> set_admin,
                          is_admin |-> is_admin,
                          dirty |-> rename \/ set_admin]]

\* edit_user from commit_account_changes(user) on
edit_user_commit(d, lg, ch) ==
    LET c == commit_account_changes(d, ch)
    IN edit_user_render(c.db, lg, c.flash, ch.uid)

edit_user(d, lg, user_id, method, username, is_admin) ==
    LET c == edit_user_check(d, lg, user_id, method, username, is_admin)
    IN IF c.done THEN c.out ELSE edit_user_commit(d, lg, c.changes)

\* Journalist.query.get returns None for a missing row and never raises
\* NoResultFound: set_diceware_password is reached with user = None.
set_password(d, lg, user_id, password) ==
    IF ~Exists(d, user_id)
    THEN Out(d, lg, Response(500, "set_diceware_password(None)", FlashNone, 0))
    ELSE LET c == set_diceware_password(d, user_id, password)
         IN Out(c.db, lg, Response(302, "admin.edit_user", c.flash, user_id))

\* delete_user without the test for the admin's own id
delete_user_no_self_test(d, lg, me, user_id) ==
    IF Exists(d, user_id)
    THEN Out(Remove(d, user_id), lg,
             Response(302, "admin.index", FlashDeleted, 0))
    ELSE Out(d, lg, Response(404, "abort", FlashNone, 0))

\* delete_user that deletes whatever the query returned
delete_user_no_missing_test(d, lg, me, user_id) ==
    IF user_id = me
    THEN Out(d, lg, Response(403, "abort", FlashNone, 0))
    ELSE Out(Remove(d, user_id), lg,
             Response(302, "admin.index", FlashDeleted, 0))

delete_user(d, lg, me, user_id) ==
    IF user_id = me
    THEN Out(d, lg, Response(403, "abort", FlashNone, 0))
    ELSE IF Exists(d, user_id)
    THEN Out(Remove(d, user_id), lg,
             Response(302, "admin.index", FlashDeleted, 0))
    ELSE Out(d, lg, Response(404, "abort", FlashNone, 0))

new_password(d, lg, user_id, password) ==
    IF ~Exists(d, user_id)
    THEN Out(d, lg, Response(500, "set_diceware_password(None)", FlashNone, 0))
    ELSE LET c == set_diceware_password(d, user_id, password)
         IN Out(c.db, lg, Response(302, "admin.edit_user", c.flash, user_id))

ossec_test(d, lg) ==
    Out(d, lg, Response(302, "admin.manage_config", FlashOssec, 0))

(* ------------------------------ requests ------------------------------ *)

LogoFiles == {"upload.png"}
DefaultLogo == "logo.png"

\* a request: the session's journalist, the URL's id and the form fields
Blank(op, who) ==
    [op |-> op, who |-> who, uid |-> 0, method |-> "POST", form_ok |-> TRUE,
     username |-> NoUsername, password |-> "pw1", is_admin |-> FALSE,
     is_hotp |-> FALSE, gen |-> <<"t", "0">>, otp_secret |-> NoSecret,
     token |-> BadToken, file |-> "upload.png"]

IndexForms(who) == {Blank("index", who)}

ConfigForms(who) ==
    {[Blank("manage_config", who) EXCEPT !.form_ok = ok, !.file = f] :
        ok \in BOOLEAN, f \in LogoFiles}

AddUsernames == FormUsernames \cup {ShortUsername}
FormPasswords == Passwords \cup {BadPassword}

\* a form that fails validation is not read any further
AddForms(who) ==
    {[Blank("add_user", who) EXCEPT !.username = u, !.password = p,
                                    !.is_admin = a, !.is_hotp = h, !.gen = g] :
        u \in AddUsernames, p \in FormPasswords, a \in BOOLEAN,
        h \in BOOLEAN, g \in TotpSecrets}
    \cup {[Blank("add_user", who) EXCEPT !.form_ok = FALSE, !.username = u] :
        u \in AddUsernames}

TwoFactorForms(who) ==
    {[Blank("new_user_two_factor", who) EXCEPT !.uid = i, !.token = t] :
        i \in UserIds, t \in Tokens}
    \cup {[Blank("new_user_two_factor", who) EXCEPT !.uid = i,
                                                   !.method = "GET"] :
        i \in UserIds}

TotpForms(who) ==
    {[Blank("reset_two_factor_totp", who) EXCEPT !.uid = i, !.gen = g] :
        i \in UserIds, g \in TotpSecrets}

HotpForms(who) ==
    {[Blank("reset_two_factor_hotp", who) EXCEPT !.uid = i,
                                                 !.otp_secret = x] :
        i \in UserIds, x \in SecretInputs}

EditUsernames == FormUsernames \cup {ShortUsername, NoUsername}

EditForms(who) ==
    {[Blank("edit_user", who) EXCEPT !.uid = i, !.username = u,
                                     !.is_admin = a] :
        i \in UserIds, u \in EditUsernames, a \in BOOLEAN}
    \cup {[Blank("edit_user", who) EXCEPT !.uid = i, !.method = "GET"] :
        i \in UserIds}

SetPasswordForms(who) ==
    {[Blank("set_password", who) EXCEPT !.uid = i, !.password = p] :
        i \in UserIds, p \in FormPasswords}

DeleteForms(who) ==
    {[Blank("delete_user", who) EXCEPT !.uid = i] : i \in UserIds}

NewPasswordForms(who) ==
    {[Blank("new_password", who) EXCEPT !.uid = i, !.password = p] :
        i \in UserIds, p \in FormPasswords}

OssecForms(who) == {[Blank("ossec_test", who) EXCEPT !.method = "GET"]}

Over(Forms(_)) == UNION {Forms(who) : who \in Requesters}

AllRequests ==
    Over(IndexForms) \cup Over(ConfigForms) \cup Over(AddForms)
    \cup Over(TwoFactorForms) \cup Over(TotpForms) \cup Over(HotpForms)
    \cup Over(EditForms) \cup Over(SetPasswordForms) \cup Over(DeleteForms)
    \cup Over(NewPasswordForms) \cup Over(OssecForms)

\* the blueprint's url map: the view function a request reaches
Dispatch(d, lg, req) ==
    CASE req.op = "index" -> index(d, lg)
      [] req.op = "manage_config" ->
            manage_config(d, lg, req.form_ok, req.file)
      [] req.op = "add_user" ->
            add_user(d, lg, req.form_ok, req.username, req.password,
                     req.is_admin, req.is_hotp, req.gen)
      [] req.op = "new_user_two_factor" ->
            new_user_two_factor(d, lg, req.uid, req.method, req.token)
      [] req.op = "reset_two_factor_totp" ->
            reset_two_factor_totp(d, lg, req.uid, req.gen)
      [] req.op = "reset_two_factor_hotp" ->
            reset_two_factor_hotp(d, lg, req.uid, req.otp_secret)
      [] req.op = "edit_user" ->
            edit_user(d, lg, req.uid, req.method, req.username, req.is_admin)
      [] req.op = "set_password" ->
            set_password(d, lg, req.uid, req.password)
      [] req.op = "delete_user" -> delete_user(d, lg, req.who, req.uid)
      [] req.op = "new_password" ->
            new_password(d, lg, req.uid, req.password)
      [] req.op = "ossec_test" -> ossec_test(d, lg)

Allowed(d, req) == ~RequiresAdmin(req.op) \/ admin_required(d, req.who)

\* one request from the decorator to the response
Handle(d, lg, req) ==
    IF Allowed(d, req) THEN Dispatch(d, lg, req) ELSE Out(d, lg, Denied)

Last(op, resp) == [op |-> op, status |-> resp.status, flash |-> resp.flash]

\* a request that has passed its checks and has not committed yet
Pending == Response(0, "pending", FlashNone, 0)

\* accounts for which new_user_two_factor has accepted a token
Confirm(req, resp, d) ==
    (IF req.op = "new_user_two_factor" /\ resp.status = 302
        /\ resp.view = "admin.index"
     THEN active \cup {req.uid} ELSE active) \cap DOMAIN d

Reply(req, res) ==
    /\ DOMAIN res.db \subseteq Ids
    /\ journalists' = res.db
    /\ logo' = res.logo
    /\ last' = Last(req.op, res.resp)
    /\ active' = Confirm(req, res.resp, res.db)

Serve(req) ==
    /\ Reply(req, Handle(journalists, logo, req))
    /\ UNCHANGED inflight

\* the decorator answers before the view function reads the request
Entering(op, who, forms) ==
    IF Allowed(journalists, Blank(op, who)) THEN forms ELSE {Blank(op, who)}

Req_index ==
    \E who \in Requesters :
        \E req \in Entering("index", who, IndexForms(who)) : Serve(req)

Req_manage_config ==
    \E who \in Requesters :
        \E req \in Entering("manage_config", who, ConfigForms(who)) :
            Serve(req)

Req_add_user ==
    \E who \in Requesters :
        \E req \in Entering("add_user", who, AddForms(who)) : Serve(req)

Req_new_user_two_factor ==
    \E who \in Requesters :
        \E req \in Entering("new_user_two_factor", who,
                            TwoFactorForms(who)) : Serve(req)

Req_reset_two_factor_totp ==
    \E who \in Requesters :
        \E req \in Entering("reset_two_factor_totp", who, TotpForms(who)) :
            Serve(req)

Req_reset_two_factor_hotp ==
    \E who \in Requesters :
        \E req \in Entering("reset_two_factor_hotp", who, HotpForms(who)) :
            Serve(req)

Req_edit_user ==
    \E who \in Requesters :
        \E req \in Entering("edit_user", who, EditForms(who)) : Serve(req)

Req_set_password ==
    \E who \in Requesters :
        \E req \in Entering("set_password", who, SetPasswordForms(who)) :
            Serve(req)

Req_delete_user ==
    \E who \in Requesters :
        \E req \in Entering("delete_user", who, DeleteForms(who)) :
            Serve(req)

Req_new_password ==
    \E who \in Requesters :
        \E req \in Entering("new_password", who, NewPasswordForms(who)) :
            Serve(req)

Req_ossec_test ==
    \E who \in Requesters :
        \E req \in Entering("ossec_test", who, OssecForms(who)) : Serve(req)

(* --------------------------- specifications --------------------------- *)

\* the first admin is created outside this blueprint, with a password that
\* no form of the blueprint submits
FirstAdmin ==
    [username |-> "alice", password |-> "pw0", is_admin |-> TRUE,
     is_totp |-> TRUE, otp_secret |-> <<"t", "0">>]

Init ==
    /\ journalists = [i \in {1} |-> FirstAdmin]
    /\ logo = DefaultLogo
    /\ last = Last("none", Pending)
    /\ active = {1}
    /\ inflight = EmptyBag

Next ==
    \/ Req_index
    \/ Req_manage_config
    \/ Req_add_user
    \/ Req_new_user_two_factor
    \/ Req_reset_two_factor_totp
    \/ Req_reset_two_factor_hotp
    \/ Req_edit_user
    \/ Req_set_password
    \/ Req_delete_user
    \/ Req_new_password
    \/ Req_ossec_test

Spec == Init /\ [][Next]_vars

(* ----------------- concurrent add_user and edit_user ------------------ *)
(* A request of add_user or edit_user runs in two steps: up to its commit  *)
(* (form, constructor, username checks) and the commit itself; requests of *)
(* other workers are served in between.  The forms vary the username, the *)
(* field the race is about; every account they create or edit is an admin. *)

ConcAddForms(who) ==
    {[Blank("add_user", who) EXCEPT !.username = u, !.is_admin = TRUE] :
        u \in Usernames}

ConcEditForms(who) ==
    {[Blank("edit_user", who) EXCEPT !.uid = i, !.username = u,
                                     !.is_admin = TRUE] :
        i \in Ids, u \in Usernames}

NoChanges ==
    [uid |-> 0, username |-> NoUsername, set_admin |-> FALSE,
     is_admin |-> FALSE, dirty |-> FALSE]

\* a pending commit: the new row of add_user, the changes of edit_user
PendingAdd(row) == [kind |-> "add", row |-> row, changes |-> NoChanges]

PendingEdit(ch) == [kind |-> "edit", row |-> FirstAdmin, changes |-> ch]

Park(op, entry) ==
    /\ BagCardinality(inflight) < MaxInFlight
    /\ inflight' = inflight (+) SetToBag({entry})
    /\ last' = Last(op, Pending)
    /\ UNCHANGED <<journalists, logo, active>>

Begin_add_user ==
    \E who \in Requesters : \E req \in ConcAddForms(who) :
        LET c == add_user_new(req.form_ok, req.username, req.password,
                              req.is_admin, req.is_hotp, req.gen)
        IN IF Allowed(journalists, req) /\ c.raised = "none"
           THEN Park("add_user", PendingAdd(c.row))
           ELSE Serve(req)

Commit_add_user ==
    \E e \in BagToSet(inflight) :
        /\ e.kind = "add"
        /\ Reply(Blank("add_user", NoSession),
                 add_user_commit(journalists, logo, e.row))
        /\ inflight' = inflight (-) SetToBag({e})

Begin_edit_user ==
    \E who \in Requesters : \E req \in ConcEditForms(who) :
        LET c == edit_user_check(journalists, logo, req.uid, req.method,
                                 req.username, req.is_admin)
        IN IF Allowed(journalists, req) /\ ~c.done
           THEN Park("edit_user", PendingEdit(c.changes))
           ELSE Serve(req)

Commit_edit_user ==
    \E e \in BagToSet(inflight) :
        /\ e.kind = "edit"
        /\ Reply(Blank("edit_user", NoSession),
                 edit_user_commit(journalists, logo, e.changes))
        /\ inflight' = inflight (-) SetToBag({e})

NextConc ==
    \/ Begin_add_user
    \/ Commit_add_user
    \/ Begin_edit_user
    \/ Commit_edit_user
    \/ Req_delete_user

SpecConc == Init /\ [][NextConc]_vars

(* ------------------------------- claims ------------------------------- *)

Admins == {who \in Requesters : admin_required(journalists, who)}

Served(req) == Handle(journalists, logo, req)

\* C1: a delete_user request of an admin for the admin's own id is answered
\* 403 and leaves the accounts as they are; the admin's account still exists.
C1_SelfDeleteForbidden ==
    \A who \in Admins : \A req \in DeleteForms(who) :
        req.uid = who =>
            LET out == Served(req)
            IN /\ out.resp.status = 403
               /\ out.db = journalists
               /\ Exists(out.db, who)

C1_Witness ==
    /\ last.op = "delete_user"
    /\ last.status = 403
    /\ Admins # {}

\* C2, as claimed: every add_user POST with the username of an existing
\* account leaves the accounts unchanged, flashes 'That username is already
\* in use' and renders the add form again.
C2_DuplicateAlwaysReported ==
    \A who \in Admins : \A req \in AddForms(who) :
        UsernameTaken(journalists, req.username) =>
            LET out == Served(req)
            IN /\ out.db = journalists
               /\ out.resp.flash = FlashInUse
               /\ out.resp.view = "admin_add_user.html"

\* C2, amended: every add_user POST with the username of an existing account
\* leaves the accounts unchanged and renders the add form again; it flashes
\* 'That username is already in use' when the form validates and the
\* constructor accepts the password.
C2_DuplicateNeverPersists ==
    \A who \in Admins : \A req \in AddForms(who) :
        UsernameTaken(journalists, req.username) =>
            LET out == Served(req)
            IN /\ out.db = journalists
               /\ out.resp.status = 200
               /\ out.resp.view = "admin_add_user.html"
               /\ (req.form_ok /\ check_password_acceptable(req.password))
                     => out.resp.flash = FlashInUse

C2_Witness ==
    /\ last.op = "add_user"
    /\ last.status = 200
    /\ last.flash = FlashInUse

\* C3: a request without an authenticated admin runs no view function: it
\* is redirected and the accounts and the logo stay as they are.
C3_AdminRequired ==
    LET admins == Admins
    IN \A req \in AllRequests :
          req.who \notin admins =>
              LET out == Served(req)
              IN /\ out.db = journalists
                 /\ out.logo = logo
                 /\ out.resp = Denied

C3_Witness ==
    /\ last.op # "none"
    /\ last.flash = FlashAdminOnly
    /\ Cardinality(DOMAIN journalists) > 1

Malformed(x) == Len(x) % 2 = 1 \/ \E k \in 1..Len(x) : x[k] \notin HexDigits

\* C4: reset_two_factor_hotp with a secret of odd length or with a
\* non-hexadecimal character leaves the account's OTP mode and secret as they
\* were, flashes the message of that defect and renders the HOTP form again.
C4_MalformedSecretRejected ==
    \A who \in Admins : \A req \in HotpForms(who) :
        (Exists(journalists, req.uid) /\ Malformed(req.otp_secret)) =>
            LET out == Served(req)
            IN /\ out.db = journalists
               /\ out.resp.status = 200
               /\ out.resp.view = "admin_edit_hotp_secret.html"
               /\ out.resp.flash \in {FlashNonHex, FlashOddLength}
               /\ Len(req.otp_secret) % 2 = 0
                     => out.resp.flash = FlashNonHex
               /\ (\A k \in 1..Len(req.otp_secret) :
                       req.otp_secret[k] \in HexDigits)
                     => out.resp.flash = FlashOddLength

C4_Witness ==
    /\ last.op = "reset_two_factor_hotp"
    /\ last.status = 200
    /\ last.flash = FlashNonHex
    /\ \E i \in DOMAIN journalists : ~journalists[i].is_totp

\* C5: a delete_user request for an id that no account has is answered 404
\* and leaves the accounts as they are.
C5_DeleteMissingIs404 ==
    \A who \in Admins : \A req \in DeleteForms(who) :
        ~Exists(journalists, req.uid) =>
            LET out == Served(req)
            IN /\ out.resp.status = 404
               /\ out.db = journalists

C5_Witness ==
    /\ last.op = "delete_user"
    /\ last.status = 404

\* C6: a set_password or new_password request for an id that no account has
\* is answered 404, and set_diceware_password is not called.
C6_PasswordOfMissingIs404 ==
    \A who \in Admins :
        \A req \in SetPasswordForms(who) \cup NewPasswordForms(who) :
            ~Exists(journalists, req.uid) => Served(req).resp.status = 404

Mutating(who) ==
    EditForms(who) \cup SetPasswordForms(who) \cup NewPasswordForms(who)
    \cup TotpForms(who) \cup HotpForms(who) \cup DeleteForms(who)

\* C7, as claimed: edit_user, set_password, reset_two_factor_totp/hotp and
\* delete_user change no account for which new_user_two_factor has not yet
\* accepted a token.
C7_OnlyActiveMutated ==
    \A who \in Admins : \A req \in Mutating(who) :
        (Exists(journalists, req.uid) /\ req.uid \notin active)
            => Served(req).db = journalists

\* C7, amended: new_user_two_factor accepts exactly the tokens the account
\* verifies and changes no account; edit_user, set_password,
\* reset_two_factor_totp/hotp and delete_user apply to every existing
\* account, whether a token has been accepted for it or not.
C7_EnrollmentNotEnforced ==
    /\ active \subseteq DOMAIN journalists
    /\ \A who \in Admins : \A req \in TwoFactorForms(who) :
          LET out == Served(req)
          IN /\ out.db = journalists
             /\ (out.resp.view = "admin.index")
                   <=> /\ req.method = "POST"
                       /\ Exists(journalists, req.uid)
                       /\ req.token = TokenFor(journalists[req.uid])
    /\ \A who \in Admins :
          /\ \A req \in DeleteForms(who) :
                (Exists(journalists, req.uid) /\ req.uid # who)
                    => ~Exists(Served(req).db, req.uid)
          /\ \A req \in SetPasswordForms(who) :
                (Exists(journalists, req.uid) /\ req.password \in Passwords)
                    => Served(req).db[req.uid].password = req.password
          /\ \A req \in TotpForms(who) :
                Exists(journalists, req.uid)
                    => Served(req).db[req.uid].is_totp
          /\ \A req \in HotpForms(who) :
                (Exists(journalists, req.uid)
                 /\ req.otp_secret = HotpFormSecret)
                    => ~Served(req).db[req.uid].is_totp
          /\ \A req \in EditForms(who) :
                (Exists(journalists, req.uid) /\ req.method = "POST"
                 /\ req.username = NoUsername)
                    => Served(req).db[req.uid].is_admin = req.is_admin

C7_Witness ==
    /\ DOMAIN journalists = {2}
    /\ active = {}
    /\ last.op = "edit_user"
    /\ last.flash = FlashUpdated

\* C9: a valid add_user POST adds exactly one account and redirects to /2fa
\* with that account's id; a POST to /2fa for that id redirects to the index
\* when the account verifies the token, and otherwise renders the prompt
\* with an error and changes no account.
C9_EnrollmentEndToEnd ==
    \A who \in Admins : \A req \in AddForms(who) :
        (/\ req.form_ok
         /\ check_username_acceptable(req.username)
         /\ check_password_acceptable(req.password)
         /\ ~UsernameTaken(journalists, req.username)) =>
            LET out == Served(req)
                new == out.resp.loc
            IN /\ out.resp.status = 302
               /\ out.resp.view = "admin.new_user_two_factor"
               /\ new \notin DOMAIN journalists
               /\ DOMAIN out.db = DOMAIN journalists \cup {new}
               /\ \A i \in DOMAIN journalists : out.db[i] = journalists[i]
               /\ out.db[new].username = req.username
               /\ out.db[new].is_admin = req.is_admin
               /\ \A t \in Tokens :
                     LET two == Handle(out.db, out.logo,
                                   [Blank("new_user_two_factor", who)
                                       EXCEPT !.uid = new, !.token = t])
                     IN /\ two.db = out.db
                        /\ IF verify_token(out.db[new], t)
                           THEN /\ two.resp.status = 302
                                /\ two.resp.view = "admin.index"
                           ELSE /\ two.resp.status = 200
                                /\ two.resp.view
                                      = "admin_new_user_two_factor.html"
                                /\ two.resp.flash = FlashTokenBad

C9_Witness ==
    /\ last.op = "new_user_two_factor"
    /\ last.status = 302
    /\ last.flash = FlashTokenOk
    /\ 2 \in active

\* C10: an edit_user POST whose username is unacceptable or belongs to
\* another account changes neither the username nor is_admin of any account;
\* one whose username is the account's own raises no 'already taken' error
\* and leaves the stored username.
C10_EditValidatesFirst ==
    \A who \in Admins : \A req \in EditForms(who) :
        req.method = "POST" =>
            /\ (/\ req.username # NoUsername
                /\ \/ ~check_username_acceptable(req.username)
                   \/ /\ Exists(journalists, req.uid)
                      /\ \E i \in DOMAIN journalists \ {req.uid} :
                            journalists[i].username = req.username)
                  => LET out == Served(req)
                     IN /\ out.db = journalists
                        /\ out.resp.status = 302
                        /\ out.resp.view = "admin.edit_user"
            /\ (/\ Exists(journalists, req.uid)
                /\ req.username = journalists[req.uid].username)
                  => LET out == Served(req)
                     IN /\ out.resp.flash # FlashTaken
                        /\ out.resp.status = 200
                        /\ Exists(out.db, req.uid)
                        /\ out.db[req.uid].username
                              = journalists[req.uid].username

C10_Witness ==
    /\ last.op = "edit_user"
    /\ last.status = 302
    /\ last.flash = FlashTaken

DuplicateErrors == {FlashInUse, FlashTaken}

HeldByOther(uid, name) ==
    \E i \in DOMAIN journalists \ {uid} : journalists[i].username = name

====
